---- MODULE Spec2Model ----
(***************************************************************************)
(* A model of nuggit: the pipe flattener (pipes.Flatten), the pipe store   *)
(* (storage.PipeStore: Store, StoreBatch, Load, ScanDependencies),         *)
(* api.Point, the Regex action (Bind, Run), the trigger store              *)
(* (storage.TriggerStore: Store, ScanTriggerCollections) and the database  *)
(* tables they read and write.                                             *)
(***************************************************************************)
EXTENDS Integers, Sequences, FiniteSets, TLC

(***************************************************************************)
(* Bounds of the model.                                                    *)
(***************************************************************************)
\* longest action sequence of a pipe handed to Flatten
MaxLen == 2
\* most actions the pipes registered in the Index hold together
MaxIndexActions == 2

\* most PipeStore.Store calls in one behaviour
MaxStores == 2
\* most resources created in one behaviour
MaxResources == 1
\* most dependency edges recorded when a scan starts
MaxEdges == 2
\* the yield and enqueue counters stop counting here
MaxCount == 3

\* pipe names
Names == {"A", "B"}
\* pipe digests
Digests == {"d1", "d2"}
\* action kinds other than "pipe"
Kinds == {"x", "y"}

(***************************************************************************)
(* Data model: actions, points, pipes.                                     *)
(***************************************************************************)
\* nuggit.Action: the kind and the arguments "name" and "digest" ("" when absent)
Action(kind, name, digest) == [action |-> kind, name |-> name, digest |-> digest]

\* a reference by name alone, as Flatten reads it
PipeAction(name) == Action("pipe", name, "")

AllActions == {Action(k, "", "") : k \in Kinds} \cup {PipeAction(n) : n \in Names}

\* the zero value of a Point
ZeroPoint == [Nullable |-> FALSE, Repeated |-> FALSE, Scalar |-> ""]

\* the points the flattened pipes declare
FlattenPoints == {ZeroPoint, [Nullable |-> TRUE, Repeated |-> FALSE, Scalar |-> "string"]}

\* nuggit.Pipe
Pipe(acts, point) == [Actions |-> acts, Point |-> point]

\* nuggit.Pipe{}
EmptyPipe == Pipe(<<>>, ZeroPoint)

SeqsUpTo(S, n) == UNION {[1..k -> S] : k \in 0..n}

(***************************************************************************)
(* The Index: for each name, how many pipes are registered under it and,   *)
(* when exactly one is, its action sequence.                               *)
(***************************************************************************)
IndexEntries ==
    {[count |-> 0, Actions |-> <<>>], [count |-> 2, Actions |-> <<>>]}
    \cup {[count |-> 1, Actions |-> s] : s \in SeqsUpTo(AllActions, MaxIndexActions)}

RECURSIVE SumLen(_, _)
SumLen(index, names) ==
    IF names = {} THEN 0
    ELSE LET n == CHOOSE m \in names : TRUE
         IN  Len(index[n].Actions) + SumLen(index, names \ {n})

Indexes == {ix \in [Names -> IndexEntries] : SumLen(ix, Names) <= MaxIndexActions}

\* Index.GetUniquePipe: the pipe and ok, ok iff exactly one pipe has the name
GetUniquePipe(index, name) ==
    IF name \in DOMAIN index /\ index[name].count = 1
    THEN [rp |-> index[name].Actions, ok |-> TRUE]
    ELSE [rp |-> <<>>, ok |-> FALSE]

(***************************************************************************)
(* The database: the tables the pipe store reads and writes.               *)
(***************************************************************************)
\* integrity.NameDigest
NameDigest(n, d) == [Name |-> n, Digest |-> d]

PipeIds == {NameDigest(n, d) : n \in Names, d \in Digests}

\* no row in Pipes under a (Name, Digest)
NoRow == [present |-> FALSE, Spec |-> EmptyPipe]

\* a row of Pipes
Row(spec) == [present |-> TRUE, Spec |-> spec]

\* a reference to a pipe by name and digest
PipeRef(id) == Action("pipe", id.Name, id.Digest)

RECURSIVE SetToSeq(_)
SetToSeq(S) ==
    IF S = {} THEN <<>>
    ELSE LET e == CHOOSE m \in S : TRUE IN <<e>> \o SetToSeq(S \ {e})

EmptyDB ==
    [Pipes |-> [id \in PipeIds |-> NoRow],
     PipeDependencies |-> {},
     Resources |-> {},
     ResourceLabels |-> {}]

Stored(d, id) == d.Pipes[id].present

VARIABLES
    idx,         \* the Index Flatten resolves names against
    flPipe,      \* Flatten's argument pipe
    actions,     \* Flatten's local slice
    i,           \* Flatten's scan position (1-based here)
    flPC,        \* "idle", "loop", "done", "failed"
    flOut,       \* the pipe Flatten returned
    flErr,       \* the class of the error Flatten returned
    expanding,   \* history: for each action of the slice, the names whose
                 \* expansion put it there
    db,          \* the committed database
    scPC,        \* ScanDependencies: "idle", "errseq", "loop", "rows", "done", "panicked"
    scStart,     \* the pipe whose dependencies are scanned
    queue,       \* ScanDependencies' queue
    seen,        \* ScanDependencies' seen set
    rows,        \* the rows the open cursor has yet to deliver
    scRes,       \* the connection, the statement and the cursor: "none", "open", "closed"
    scOut,       \* what the consumer saw and what was enqueued
    lock,        \* the client holding the database's write lock, or "none"
    call,        \* per client: the PipeStore.Store call it is in
    tx,          \* per client: the tables as its open transaction sees them
    orig,        \* history: the specification each pipe was first stored with
    nStores,     \* history: the number of Store calls made
    batch,       \* the StoreBatch call: its pipes, its position, how it ended
    pointOp,     \* the last operation on a Point: its arguments and results
    regex,       \* the configuration of a Regex action
    regexOp,     \* the last Bind or Run of the Regex and how it ended
    triggers,    \* the committed Triggers table
    trigCall,    \* the TriggerStore.Store call in progress
    events,      \* per trigger event: its place in the plan lifecycle
    results,     \* the trigger events whose results are stored
    collScan     \* ScanTriggerCollections: its position, its connection,
                 \* statement and cursor, the rows left, what was yielded

flattenVars == <<idx, flPipe, actions, i, flPC, flOut, flErr, expanding>>

scanVars == <<scPC, scStart, queue, seen, rows, scRes, scOut>>

storeVars == <<lock, call, tx, orig, nStores, batch>>

pointVars == <<pointOp>>

regexVars == <<regex, regexOp>>

triggerVars == <<triggers, trigCall, events, results, collScan>>

vars == <<idx, flPipe, actions, i, flPC, flOut, flErr, expanding, db,
          scPC, scStart, queue, seen, rows, scRes, scOut,
          lock, call, tx, orig, nStores, batch,
          pointOp, regex, regexOp, triggers, trigCall, events, results, collScan>>

\* the clients of the pipe store
Procs == {"p1", "p2"}

NoCall == [pc |-> "idle", pipe |-> [Name |-> "", Digest |-> "", Spec |-> EmptyPipe],
           err |-> "none", fault |-> FALSE, at |-> "", pre |-> EmptyDB]

\* StoreBatch not called yet
NoBatch == [pc |-> "idle", objects |-> <<>>, k |-> 1, err |-> "none", pre |-> EmptyDB]

StoreIdle ==
    /\ lock = "none"
    /\ call = [p \in Procs |-> NoCall]
    /\ tx = [p \in Procs |-> EmptyDB]
    /\ orig = [id \in PipeIds |-> NoRow]
    /\ nStores = 0
    /\ batch = NoBatch

ScanIdle ==
    /\ scPC = "idle"
    /\ scStart = NameDigest("", "")
    /\ queue = <<>>
    /\ seen = {}
    /\ rows = {}
    /\ scRes = [conn |-> "none", prep |-> "none", cursor |-> "none"]
    /\ scOut = [yields |-> [id \in PipeIds |-> 0],
                enqs |-> [id \in PipeIds |-> 0],
                errs |-> 0,
                stopped |-> FALSE,
                afterStop |-> FALSE,
                afterErr |-> FALSE,
                queries |-> 0]

FlattenIdle ==
    /\ idx = [n \in Names |-> [count |-> 0, Actions |-> <<>>]]
    /\ flPipe = EmptyPipe
    /\ actions = <<>>
    /\ i = 1
    /\ flPC = "idle"
    /\ flOut = EmptyPipe
    /\ flErr = "none"
    /\ expanding = <<>>

\* no operation on a Point yet
NoPointOp ==
    [op |-> "none", isNil |-> FALSE, p |-> ZeroPoint, s |-> "", x |-> {},
     out |-> ZeroPoint, text |-> "", err |-> "none"]

PointIdle == pointOp = NoPointOp

\* Regex{}
ZeroRegex == [Pattern |-> ""]

\* an Edge's Result: a string, a *Regex (nil or not) or a value of another type
EdgeResult(type, str, cfg) == [type |-> type, str |-> str, cfg |-> cfg]

NoRegexOp ==
    [op |-> "none", SrcField |-> "", Result |-> EdgeResult("none", "", ZeroRegex),
     outcome |-> "none", class |-> "none", pre |-> ZeroRegex, compiled |-> ""]

RegexIdle ==
    /\ regex = ZeroRegex
    /\ regexOp = NoRegexOp

\* the ids newUUID draws from
TriggerIds == {"u1", "u2", "u3"}

\* the trigger events of a batch
Events == {"e1", "e2"}

\* no row in Triggers under a TriggerID
NoTrigger == [present |-> FALSE, Committed |-> FALSE, Plan |-> "", Spec |-> ""]

EmptyTriggers == [id \in TriggerIds |-> NoTrigger]

NoTrigCall ==
    [pc |-> "idle", ev |-> "", object |-> [Trigger |-> "", Plan |-> ""],
     spec |-> "", plan |-> "", id |-> "", ret |-> "", err |-> "none", at |-> "",
     tx |-> EmptyTriggers]

\* an event as received: no plan id yet, no invocation started
NoEvent == [state |-> "received", id |-> "", started |-> FALSE, failedAt |-> ""]

\* ScanTriggerCollections not called yet
NoCollScan ==
    [pc |-> "idle", conn |-> "none", prep |-> "none", cursor |-> "none",
     left |-> {}, yielded |-> {}, errs |-> 0, stopped |-> FALSE]

TriggerIdle ==
    /\ triggers = EmptyTriggers
    /\ trigCall = NoTrigCall
    /\ events = [e \in Events |-> NoEvent]
    /\ results = {}
    /\ collScan = NoCollScan

(***************************************************************************)
(* pipes.Flatten, one loop iteration per step.                             *)
(***************************************************************************)
\* the longest slice the model lets Flatten build (an acyclic Index never
\* needs more)
MaxFlat == MaxLen * MaxIndexActions * MaxIndexActions

\* slices.Delete(s, j, j+1)
Delete(s, j) == SubSeq(s, 1, j - 1) \o SubSeq(s, j + 1, Len(s))

\* slices.Insert(s, j, v...)
Insert(s, j, v) == SubSeq(s, 1, j - 1) \o v \o SubSeq(s, j, Len(s))

\* a faulty splice: the referenced actions are appended, not put in place
InlineAtEnd(s, j, rp) == Delete(s, j) \o rp

\* actions = slices.Insert(slices.Delete(actions, i, i+1), i, rp.Actions...)
Inline(s, j, rp) == Insert(Delete(s, j), j, rp)

\* the error Flatten builds with fmt.Errorf and no wrapped status error
FlattenError == "Unclassified"

\* the pipe Flatten returns on success
FlattenResult(acts, pipe) == Pipe(acts, pipe.Point)

FlattenInit ==
    /\ idx \in Indexes
    /\ flPipe = EmptyPipe
    /\ actions = <<>>
    /\ i = 1
    /\ flPC = "idle"
    /\ flOut = EmptyPipe
    /\ flErr = "none"
    /\ expanding = <<>>
    /\ db = EmptyDB
    /\ ScanIdle
    /\ StoreIdle
    /\ PointIdle
    /\ RegexIdle
    /\ TriggerIdle

\* Flatten(idx, pipe): actions := slices.Clone(pipe.Actions); i := 0
FlattenCall ==
    /\ flPC = "idle"
    /\ \E acts \in SeqsUpTo(AllActions, MaxLen), pt \in FlattenPoints :
          flPipe' = Pipe(acts, pt)
    /\ actions' = flPipe'.Actions
    /\ i' = 1
    /\ flPC' = "loop"
    /\ expanding' = [k \in 1..Len(actions') |-> {}]
    /\ UNCHANGED <<idx, flOut, flErr>>
    /\ UNCHANGED <<db, scanVars, storeVars, pointVars, regexVars, triggerVars>>

\* a.GetAction() != "pipe": i++
FlattenSkip ==
    /\ flPC = "loop"
    /\ i <= Len(actions)
    /\ actions[i].action # "pipe"
    /\ i' = i + 1
    /\ UNCHANGED <<idx, flPipe, actions, flPC, flOut, flErr, expanding>>
    /\ UNCHANGED <<db, scanVars, storeVars, pointVars, regexVars, triggerVars>>

\* the reference resolves: replace it in place and rescan from i
FlattenInline ==
    /\ flPC = "loop"
    /\ i <= Len(actions)
    /\ actions[i].action = "pipe"
    /\ LET r == GetUniquePipe(idx, actions[i].name)
       IN  /\ r.ok
           /\ Len(actions) - 1 + Len(r.rp) <= MaxFlat
           /\ actions' = Inline(actions, i, r.rp)
           /\ expanding' = Insert(Delete(expanding, i), i,
                                  [k \in 1..Len(r.rp) |-> expanding[i] \cup {actions[i].name}])
    /\ UNCHANGED <<idx, flPipe, i, flPC, flOut, flErr>>
    /\ UNCHANGED <<db, scanVars, storeVars, pointVars, regexVars, triggerVars>>

\* the reference does not resolve: return nuggit.Pipe{} and the error
FlattenFail ==
    /\ flPC = "loop"
    /\ i <= Len(actions)
    /\ actions[i].action = "pipe"
    /\ ~GetUniquePipe(idx, actions[i].name).ok
    /\ flPC' = "failed"
    /\ flOut' = EmptyPipe
    /\ flErr' = FlattenError
    /\ UNCHANGED <<idx, flPipe, actions, i, expanding>>
    /\ UNCHANGED <<db, scanVars, storeVars, pointVars, regexVars, triggerVars>>

\* the scan reached the end: return the new pipe
FlattenReturn ==
    /\ flPC = "loop"
    /\ i > Len(actions)
    /\ flPC' = "done"
    /\ flOut' = FlattenResult(actions, flPipe)
    /\ UNCHANGED <<idx, flPipe, actions, i, flErr, expanding>>
    /\ UNCHANGED <<db, scanVars, storeVars, pointVars, regexVars, triggerVars>>

FlattenNext ==
    \/ FlattenCall
    \/ FlattenSkip
    \/ FlattenInline
    \/ FlattenFail
    \/ FlattenReturn

SpecFlatten == FlattenInit /\ [][FlattenNext]_vars

(***************************************************************************)
(* What the Index says about a pipe: the names it reaches, whether they    *)
(* resolve, whether one of them lies on a reference cycle, and its         *)
(* expansion by structural recursion.                                      *)
(***************************************************************************)
IsRef(a) == a.action = "pipe"

RefNames(acts) == {acts[k].name : k \in {j \in 1..Len(acts) : IsRef(acts[j])}}

ReachStep(index, S) ==
    S \cup UNION {RefNames(GetUniquePipe(index, n).rp) : n \in S}

RECURSIVE ReachIter(_, _, _)
ReachIter(index, S, k) ==
    IF k = 0 THEN S ELSE ReachIter(index, ReachStep(index, S), k - 1)

\* the names a pipe with these actions refers to, directly or transitively
Reach(index, acts) == ReachIter(index, RefNames(acts), Cardinality(Names))

OnCycle(index, n) ==
    GetUniquePipe(index, n).ok /\ n \in Reach(index, GetUniquePipe(index, n).rp)

ReachesCycle(index, acts) == \E n \in Reach(index, acts) : OnCycle(index, n)

Resolves(index, acts) == \A n \in Reach(index, acts) : GetUniquePipe(index, n).ok

Resolvable(index, acts) == Resolves(index, acts) /\ ~ReachesCycle(index, acts)

RECURSIVE Expand(_, _, _)
Expand(index, acts, fuel) ==
    IF acts = <<>> \/ fuel = 0 THEN <<>>
    ELSE IF IsRef(Head(acts))
         THEN Expand(index, GetUniquePipe(index, Head(acts).name).rp, fuel - 1)
                  \o Expand(index, Tail(acts), fuel)
         ELSE <<Head(acts)>> \o Expand(index, Tail(acts), fuel)

Expansion(index, acts) == Expand(index, acts, Cardinality(Names) + 1)

Hermetic(acts) == \A k \in 1..Len(acts) : ~IsRef(acts[k])

(***************************************************************************)
(* C1: Flatten guards against reference cycles: at a reference to a name   *)
(* that is already being expanded on the current path its next step is to  *)
(* fail with a FailedPrecondition error; it never expands that name again. *)
(***************************************************************************)
AtRevisit ==
    /\ flPC = "loop"
    /\ i <= Len(actions)
    /\ IsRef(actions[i])
    /\ actions[i].name \in expanding[i]

C1_FlattenCycleFails ==
    [][AtRevisit => (flPC' = "failed" /\ flErr' = "FailedPrecondition")]_vars

(***************************************************************************)
(* C2: when every reference the pipe reaches resolves uniquely and         *)
(* acyclically, Flatten does not fail, never needs a slice longer than     *)
(* MaxFlat, and returns the recursive in-place expansion of the input      *)
(* with no "pipe" action left and with the input's Point.                  *)
(***************************************************************************)
C2_FlattenInlines ==
    (flPC # "idle" /\ Resolvable(idx, flPipe.Actions)) =>
        /\ flPC # "failed"
        /\ (flPC = "loop" /\ i <= Len(actions) /\ IsRef(actions[i])) =>
               Len(actions) - 1 + Len(GetUniquePipe(idx, actions[i].name).rp) <= MaxFlat
        /\ flPC = "done" =>
               /\ flOut.Actions = Expansion(idx, flPipe.Actions)
               /\ Hermetic(flOut.Actions)
               /\ flOut.Point = flPipe.Point

\* Flatten returned after inlining a reference to a pipe that itself holds a
\* reference, between other actions
C2_Witness ==
    /\ flPC = "done"
    /\ Resolvable(idx, flPipe.Actions)
    /\ Len(flPipe.Actions) = 2
    /\ \E k \in 1..2 :
          /\ IsRef(flPipe.Actions[k])
          /\ RefNames(GetUniquePipe(idx, flPipe.Actions[k].name).rp) # {}
          /\ ~IsRef(flPipe.Actions[3 - k])
    /\ Len(flOut.Actions) = 2
    /\ flOut.Point # ZeroPoint

(***************************************************************************)
(* C3: a reference that resolves to no pipe or to several makes Flatten    *)
(* fail with an InvalidArgument-class error.                               *)
(***************************************************************************)
C3_UnresolvedIsInvalidArgument ==
    flPC = "failed" => flErr = "InvalidArgument"

(***************************************************************************)
(* PipeStore.ScanDependencies: the setup, then the returned sequence, one  *)
(* query or one row per step.                                              *)
(***************************************************************************)
\* integrity.Key
Key(id) == NameDigest(id.Name, id.Digest)

\* a faulty query: the edges are followed backwards
QueryRowsReversed(d, key) ==
    {pr \in PipeIds : /\ <<pr, key>> \in d.PipeDependencies
                      /\ Stored(d, key)
                      /\ Stored(d, pr)}

\* the rows of the prepared SELECT for one pipe: the pipes it has a
\* dependency edge to
QueryRows(d, key) ==
    {pr \in PipeIds : /\ <<key, pr>> \in d.PipeDependencies
                      /\ Stored(d, key)
                      /\ Stored(d, pr)}

\* if _, ok := seen[key]; !ok { queue = append(queue, ...) }
ShouldEnqueue(key, seenSet) == key \notin seenSet

\* a faulty dequeue: the head stays in the queue
NoDequeue(q) == q

\* queue = queue[1:]
Dequeue(q) == Tail(q)

Bump(c) == IF c < MaxCount THEN c + 1 ELSE c

\* yield(p, nil), the consumer answering cont
YieldPipe(o, id, cont) ==
    [o EXCEPT !.yields[id] = Bump(@),
              !.stopped = @ \/ ~cont,
              !.afterStop = @ \/ o.stopped,
              !.afterErr = @ \/ (o.errs > 0)]

\* yield(nil, err)
YieldErr(o) ==
    [o EXCEPT !.errs = Bump(@),
              !.afterStop = @ \/ o.stopped,
              !.afterErr = @ \/ (o.errs > 0)]

\* the deferred prep.Close() and conn.Close() of the sequence function
Deferred(res) == [res EXCEPT !.conn = "closed", !.prep = "closed"]

\* the databases a scan starts from: every pipe stored, its actions the
\* references of its recorded edges
ScanDBs ==
    {[Pipes |-> [id \in PipeIds |->
                   Row(Pipe(SetToSeq({PipeRef(t) : t \in {u \in PipeIds : <<id, u>> \in E}}),
                            ZeroPoint))],
      PipeDependencies |-> E,
      Resources |-> {},
      ResourceLabels |-> {}] :
        E \in {F \in SUBSET (PipeIds \X PipeIds) : Cardinality(F) <= MaxEdges}}

ScanInit ==
    /\ FlattenIdle
    /\ db \in ScanDBs
    /\ ScanIdle
    /\ StoreIdle
    /\ PointIdle
    /\ RegexIdle
    /\ TriggerIdle

\* ScanDependencies(ctx, pipe) up to the return of the sequence
ScanCall ==
    /\ scPC = "idle"
    /\ \E start \in PipeIds, setup \in {"ok", "conn", "prep"} :
          /\ scStart' = start
          /\ CASE setup = "conn" ->
                    /\ scPC' = "errseq"
                    /\ UNCHANGED <<queue, scRes, scOut>>
               [] setup = "prep" ->
                    /\ scPC' = "errseq"
                    /\ scRes' = [scRes EXCEPT !.conn = "open"]
                    /\ UNCHANGED <<queue, scOut>>
               [] setup = "ok" ->
                    /\ scPC' = "loop"
                    /\ scRes' = [scRes EXCEPT !.conn = "open", !.prep = "open"]
                    /\ queue' = <<Key(start)>>
                    /\ scOut' = [scOut EXCEPT !.enqs[Key(start)] = Bump(@)]
    /\ UNCHANGED <<seen, rows>>
    /\ UNCHANGED <<db, flattenVars, storeVars, pointVars, regexVars, triggerVars>>

\* seq2Error: the sequence yields the setup error once
ScanErrSeq ==
    /\ scPC = "errseq"
    /\ scOut' = YieldErr(scOut)
    /\ scPC' = "done"
    /\ UNCHANGED <<scStart, queue, seen, rows, scRes>>
    /\ UNCHANGED <<db, flattenVars, storeVars, pointVars, regexVars, triggerVars>>

\* pipe := queue[0]; queue = queue[1:]; rows, err := prep.QueryContext(...)
ScanQuery ==
    /\ scPC = "loop"
    /\ queue # <<>>
    /\ queue' = Dequeue(queue)
    /\ \E ok \in BOOLEAN :
          IF ok
          THEN /\ rows' = QueryRows(db, Head(queue))
               /\ scRes' = [scRes EXCEPT !.cursor = "open"]
               /\ scOut' = [scOut EXCEPT !.queries = Bump(@),
                                         !.afterStop = @ \/ scOut.stopped]
               /\ scPC' = "rows"
          ELSE /\ scOut' = YieldErr(scOut)
               /\ scRes' = Deferred(scRes)
               /\ scPC' = "done"
               /\ UNCHANGED rows
    /\ UNCHANGED <<scStart, seen>>
    /\ UNCHANGED <<db, flattenVars, storeVars, pointVars, regexVars, triggerVars>>

\* rows.Next() delivers a row: scan it, decode it, yield it, enqueue it
ScanRow ==
    /\ scPC = "rows"
    /\ rows # {}
    /\ \E r \in rows, ok \in BOOLEAN, cont \in BOOLEAN :
          IF ~ok
          THEN \* rows.Scan, the decoding or the digest check fails
               /\ scOut' = YieldErr(scOut)
               /\ scRes' = Deferred(scRes)
               /\ scPC' = "done"
               /\ UNCHANGED <<queue, seen, rows>>
          ELSE IF ~cont
          THEN \* yield returned false: break out of the rows loop only
               /\ scOut' = YieldPipe(scOut, r, FALSE)
               /\ rows' = rows \ {r}
               /\ scPC' = "loop"
               /\ UNCHANGED <<queue, seen, scRes>>
          ELSE /\ queue' = IF ShouldEnqueue(Key(r), seen)
                           THEN Append(queue, Key(r)) ELSE queue
               /\ scOut' = [YieldPipe(scOut, r, TRUE) EXCEPT
                              !.enqs[Key(r)] =
                                  IF ShouldEnqueue(Key(r), seen) THEN Bump(@) ELSE @]
               /\ seen' = seen \cup {Key(r)}
               /\ rows' = rows \ {r}
               /\ UNCHANGED <<scPC, scRes>>
    /\ UNCHANGED scStart
    /\ UNCHANGED <<db, flattenVars, storeVars, pointVars, regexVars, triggerVars>>

\* rows.Next() returns false, at the end or on an error; rows.Err() is
\* yielded and the outer loop goes on
ScanRowsEnd ==
    /\ scPC = "rows"
    /\ \E err \in BOOLEAN :
          /\ rows = {} \/ err
          /\ scOut' = IF err THEN YieldErr(scOut) ELSE scOut
    /\ rows' = {}
    /\ scRes' = [scRes EXCEPT !.cursor = "closed"]
    /\ scPC' = "loop"
    /\ UNCHANGED <<scStart, queue, seen>>
    /\ UNCHANGED <<db, flattenVars, storeVars, pointVars, regexVars, triggerVars>>

\* the queue is empty: the sequence function returns
ScanFinish ==
    /\ scPC = "loop"
    /\ queue = <<>>
    /\ scRes' = Deferred(scRes)
    /\ scPC' = "done"
    /\ UNCHANGED <<scStart, queue, seen, rows, scOut>>
    /\ UNCHANGED <<db, flattenVars, storeVars, pointVars, regexVars, triggerVars>>

\* the consumer is a range loop that has exited: the next call of yield
\* panics, and the deferred calls run
ScanPanic ==
    /\ scOut.stopped
    /\ \/ scPC = "rows"
       \/ scPC = "loop" /\ queue # <<>>
    /\ scOut' = [scOut EXCEPT !.afterStop = TRUE]
    /\ scRes' = Deferred(scRes)
    /\ scPC' = "panicked"
    /\ UNCHANGED <<scStart, queue, seen, rows>>
    /\ UNCHANGED <<db, flattenVars, storeVars, pointVars, regexVars, triggerVars>>

ScanNext ==
    \/ ScanCall
    \/ ScanErrSeq
    \/ ScanQuery
    \/ ScanRow
    \/ ScanRowsEnd
    \/ ScanFinish
    \/ ScanPanic

SpecScan == ScanInit /\ [][ScanNext]_vars

\* the caller and the consumer run the sequence to its end
FairSpecScan == SpecScan /\ WF_vars(ScanNext)

(***************************************************************************)
(* The pipes reachable over one or more recorded edges.                    *)
(***************************************************************************)
Succ(E, S) == {t \in PipeIds : \E f \in S : <<f, t>> \in E}

RECURSIVE Closure(_, _, _)
Closure(E, S, k) ==
    IF k = 0 THEN S ELSE Closure(E, S \cup Succ(E, S), k - 1)

ReachPlus(E, start) == Closure(E, Succ(E, {start}), Cardinality(PipeIds))

Yielded == {id \in PipeIds : scOut.yields[id] > 0}

\* the sequence ran to its end with no error and no stop from the consumer
FullyConsumed == scPC = "done" /\ scOut.errs = 0 /\ ~scOut.stopped

(***************************************************************************)
(* C4: for every recorded edge set, cyclic ones included, the sequence     *)
(* of ScanDependencies ends unless the consumer stops consuming.           *)
(***************************************************************************)
C4_ScanTerminates == <>(scPC = "done" \/ scOut.stopped)

\* a scan that started on a two-pipe cycle ran to its end
C4_Witness ==
    /\ FullyConsumed
    /\ \E b \in PipeIds \ {scStart} :
          /\ <<scStart, b>> \in db.PipeDependencies
          /\ <<b, scStart>> \in db.PipeDependencies
    /\ scOut.yields[scStart] > 0

(***************************************************************************)
(* C5: in one traversal every pipe is enqueued at most once and yielded    *)
(* at most once.                                                           *)
(***************************************************************************)
C5_AtMostOnce ==
    \A id \in PipeIds : scOut.yields[id] <= 1 /\ scOut.enqs[id] <= 1

(***************************************************************************)
(* C6: fully consumed without error, the set of yielded pipes is the set   *)
(* of pipes reachable from the start over one or more recorded edges.      *)
(***************************************************************************)
C6_YieldsReachable ==
    FullyConsumed => Yielded = ReachPlus(db.PipeDependencies, scStart)

\* a full scan yielded a pipe that is no direct dependency of the start,
\* and left another pipe out
C6_Witness ==
    /\ FullyConsumed
    /\ \E id \in Yielded : <<scStart, id>> \notin db.PipeDependencies
    /\ Yielded # PipeIds
    /\ scStart \notin Yielded

(***************************************************************************)
(* PipeStore.Store, one statement per step, inside one transaction.        *)
(***************************************************************************)
\* the pipe specifications the clients store
StoreSpecs ==
    {Pipe(<<>>, ZeroPoint),
     Pipe(<<Action("x", "", "")>>, ZeroPoint),
     Pipe(<<PipeRef(NameDigest("A", "d1"))>>, ZeroPoint),
     Pipe(<<PipeRef(NameDigest("B", "d1")), Action("y", "", ""),
            PipeRef(NameDigest("A", "d2"))>>, ZeroPoint)}

\* api.Pipe: the name, the digest and the specification
StorePipes ==
    {[Name |-> id.Name, Digest |-> id.Digest, Spec |-> sp] :
        id \in PipeIds, sp \in StoreSpecs}

\* pipes.Deps: the (name, digest) of every nested "pipe" action, in order
Deps(spec) ==
    LET refs == SelectSeq(spec.Actions, IsRef)
    IN  [k \in 1..Len(refs) |-> NameDigest(refs[k].name, refs[k].digest)]

ResourcesOf(d, sel(_)) == {r \in d.Resources : sel(r.PipeID)}

\* a faulty statement: nothing is labelled
DisableNothing(d, name) == d

\* INSERT OR IGNORE INTO ResourceLabels ... SELECT r.ID, 'disabled' ...
\* WHERE p.Name = ?
DisableOld(d, name) ==
    [d EXCEPT !.ResourceLabels =
        @ \cup {[ResourceID |-> r.ID, Label |-> "disabled"] :
                   r \in {q \in d.Resources :
                            Stored(d, q.PipeID) /\ q.PipeID.Name = name}}]

\* a faulty statement: INSERT OR REPLACE, the row of an equal (Name, Digest)
\* is overwritten
InsertOrReplace(d, pipe) ==
    [ok |-> TRUE, db |-> [d EXCEPT !.Pipes[Key(pipe)] = Row(pipe.Spec)]]

\* a faulty statement: the rows of the other digests of the name are dropped
InsertDroppingName(d, pipe) ==
    [ok |-> ~Stored(d, Key(pipe)),
     db |-> [d EXCEPT !.Pipes =
               [id \in PipeIds |->
                  IF id = Key(pipe) THEN Row(pipe.Spec)
                  ELSE IF id.Name = pipe.Name THEN NoRow ELSE @[id]]]]

\* INSERT INTO Pipes (Name, Digest, TypeNumber, Spec) VALUES (?, ?, ?, ?):
\* fails when a row has the (Name, Digest)
InsertPipe(d, pipe) ==
    [ok |-> ~Stored(d, Key(pipe)),
     db |-> [d EXCEPT !.Pipes[Key(pipe)] = Row(pipe.Spec)]]

\* storePipeDeps, its first k statements: INSERT OR IGNORE INTO
\* PipeDependencies ... one edge per dependency whose pipe has a row
StorePipeDeps(d, pipe, k) ==
    [d EXCEPT !.PipeDependencies =
        @ \cup {<<Key(pipe), Deps(pipe.Spec)[j]>> :
                   j \in {m \in 1..k : /\ Stored(d, Key(pipe))
                                        /\ Deps(pipe.Spec)[m] \in PipeIds
                                        /\ Stored(d, Deps(pipe.Spec)[m])}}]

\* DELETE FROM ResourceLabels ... WHERE p.Name = ? AND p.Digest = ? AND
\* rl.Label = 'disabled'
EnableNew(d, pipe) ==
    [d EXCEPT !.ResourceLabels =
        {rl \in @ : ~(/\ rl.Label = "disabled"
                      /\ \E r \in d.Resources :
                            /\ r.ID = rl.ResourceID
                            /\ Stored(d, r.PipeID)
                            /\ r.PipeID = Key(pipe))}]

\* a faulty exit: what the transaction wrote stays
RollbackKeeps(committed, t) == t

\* the deferred tx.Rollback(): the tables are the committed ones
Rollback(committed, t) == committed

\* handleExecErrors(err, alreadyExistsFunc("pipe", pipe))
HandleExecErrors(duplicate) == IF duplicate THEN "AlreadyExists" ELSE "DriverError"

\* loadSpec(ctx, db, "Pipes", name, c)
Load(d, id) ==
    IF Stored(d, id)
    THEN [err |-> "none", pipe |-> d.Pipes[id].Spec]
    ELSE [err |-> "NotFound", pipe |-> EmptyPipe]

Ended == {"idle", "done", "failed"}

NoClientBusy == \A p \in Procs : call[p].pc \in Ended

\* an error return at step "at", the transaction's tables being t: the
\* deferred Rollback and conn.Close() run
Fails(p, t, class, injected, at) ==
    /\ call' = [call EXCEPT ![p].pc = "failed", ![p].err = class,
                            ![p].fault = injected, ![p].at = at]
    /\ db' = IF lock = p THEN Rollback(db, t) ELSE db
    /\ tx' = [tx EXCEPT ![p] = EmptyDB]
    /\ lock' = IF lock = p THEN "none" ELSE lock
    /\ UNCHANGED <<orig, nStores, batch, flattenVars, scanVars, pointVars, regexVars, triggerVars>>

Steps(p, pc, t) ==
    /\ call' = [call EXCEPT ![p].pc = pc]
    /\ tx' = [tx EXCEPT ![p] = t]
    /\ UNCHANGED <<db, orig, nStores, batch, flattenVars, scanVars, pointVars, regexVars, triggerVars>>

\* Store(ctx, pipe): s.db.Conn, conn.BeginTx, marshalNullableJSONString
StoreCall(p) ==
    /\ call[p].pc \in Ended
    /\ nStores < MaxStores
    /\ nStores' = nStores + 1
    /\ \E pipe \in StorePipes, ok \in BOOLEAN :
          call' = [call EXCEPT ![p] =
                      [pc |-> IF ok THEN "disable" ELSE "failed",
                       pipe |-> pipe,
                       err |-> IF ok THEN "none" ELSE "DriverError",
                       fault |-> ~ok,
                       at |-> IF ok THEN "" ELSE "begin",
                       pre |-> db]]
    /\ UNCHANGED <<db, lock, tx, orig, batch, flattenVars, scanVars, pointVars, regexVars, triggerVars>>

\* a faulty transaction: it works on the tables as they were at the call
SnapshotAtCall(committed, pre) == pre

\* the tables the first statement of a transaction reads and writes: the
\* committed ones
Snapshot(committed, pre) == committed

\* the first statement: the old resources of the name get 'disabled'; it
\* takes the write lock; while another transaction holds the lock it
\* waits, or fails (busy, or any other failure of the statement)
StoreDisableOld(p) ==
    /\ call[p].pc = "disable"
    /\ \/ /\ lock = "none"
          /\ lock' = p
          /\ Steps(p, "insert",
                   DisableOld(Snapshot(db, call[p].pre), call[p].pipe.Name))
       \/ Fails(p, db, "DriverError", TRUE, "disable")

\* the prepared INSERT INTO Pipes
StoreInsert(p) ==
    /\ call[p].pc = "insert"
    /\ \E ok \in BOOLEAN :
          LET r == InsertPipe(tx[p], call[p].pipe)
          IN  IF ~ok THEN Fails(p, tx[p], "DriverError", TRUE, "insert")
              ELSE IF ~r.ok THEN Fails(p, tx[p], HandleExecErrors(TRUE), FALSE, "insert")
              ELSE Steps(p, "deps", r.db) /\ UNCHANGED lock

\* storePipeDeps: it runs all its statements, or fails after k of them
StoreDeps(p) ==
    /\ call[p].pc = "deps"
    /\ LET n == Len(Deps(call[p].pipe.Spec))
       IN  \/ Steps(p, "enable", StorePipeDeps(tx[p], call[p].pipe, n)) /\ UNCHANGED lock
           \/ \E k \in 0..n :
                 Fails(p, StorePipeDeps(tx[p], call[p].pipe, k), "DriverError", TRUE, "deps")

\* the last statement: the resources of the new pipe lose 'disabled'
StoreEnableNew(p) ==
    /\ call[p].pc = "enable"
    /\ \E ok \in BOOLEAN :
          IF ~ok THEN Fails(p, tx[p], "DriverError", TRUE, "enable")
          ELSE Steps(p, "commit", EnableNew(tx[p], call[p].pipe)) /\ UNCHANGED lock

\* tx.Commit()
StoreCommit(p) ==
    /\ call[p].pc = "commit"
    /\ \E ok \in BOOLEAN :
          IF ~ok THEN Fails(p, tx[p], "DriverError", TRUE, "commit")
          ELSE /\ db' = tx[p]
               /\ lock' = "none"
               /\ call' = [call EXCEPT ![p].pc = "done"]
               /\ tx' = [tx EXCEPT ![p] = EmptyDB]
               /\ orig' = [orig EXCEPT ![Key(call[p].pipe)] =
                              IF @ = NoRow THEN Row(call[p].pipe.Spec) ELSE @]
               /\ UNCHANGED <<nStores, batch, flattenVars, scanVars, pointVars, regexVars, triggerVars>>

\* ResourceStore.StorePipeResource: a resource attached to a stored pipe
AddResource ==
    /\ NoClientBusy
    /\ Cardinality(db.Resources) < MaxResources
    /\ \E id \in PipeIds :
          /\ Stored(db, id)
          /\ db' = [db EXCEPT !.Resources =
                       @ \cup {[ID |-> Cardinality(db.Resources) + 1, PipeID |-> id]}]
    /\ UNCHANGED <<storeVars, flattenVars, scanVars, pointVars, regexVars, triggerVars>>

StoreInit ==
    /\ FlattenIdle
    /\ db = EmptyDB
    /\ ScanIdle
    /\ StoreIdle
    /\ PointIdle
    /\ RegexIdle
    /\ TriggerIdle

\* one client, one call at a time
StoreNext ==
    \/ StoreCall("p1")
    \/ StoreDisableOld("p1")
    \/ StoreInsert("p1")
    \/ StoreDeps("p1")
    \/ StoreEnableNew("p1")
    \/ StoreCommit("p1")
    \/ AddResource

SpecStore == StoreInit /\ [][StoreNext]_vars

\* the name the two clients race on
RaceName == "A"

\* two clients storing digests of one name, their calls interleaved
\* statement by statement
ConcurrentNext ==
    \/ \E p \in Procs : StoreCall(p) /\ call'[p].pipe.Name = RaceName
    \/ \E p \in Procs : StoreDisableOld(p)
    \/ \E p \in Procs : StoreInsert(p)
    \/ \E p \in Procs : StoreDeps(p)
    \/ \E p \in Procs : StoreEnableNew(p)
    \/ \E p \in Procs : StoreCommit(p)
    \/ AddResource

SpecConcurrentStore == StoreInit /\ [][ConcurrentNext]_vars

(***************************************************************************)
(* What the claims about Store speak of.                                   *)
(***************************************************************************)
\* the call of client p returns in this step
Returns(p) == call[p].pc \notin Ended /\ call'[p].pc \in Ended

Disabled(d, r) == [ResourceID |-> r.ID, Label |-> "disabled"] \in d.ResourceLabels

(***************************************************************************)
(* C7: Store is atomic: when a call fails at any step, the stored pipes,   *)
(* the dependency edges, the resources and their labels are exactly as     *)
(* they were before the call.                                              *)
(***************************************************************************)
C7_StoreAtomic ==
    [][\A p \in Procs :
          (Returns(p) /\ call'[p].pc = "failed") => db' = call[p].pre]_vars

\* a call failed at the commit, after its transaction had labelled a
\* resource of the name, inserted the pipe's row and recorded an edge,
\* and the database is as before the call
C7_Witness ==
    \E id \in PipeIds :
       /\ call["p1"].pc = "failed"
       /\ call["p1"].at = "commit"
       /\ PipeRef(id) \in {call["p1"].pipe.Spec.Actions[k] :
                              k \in 1..Len(call["p1"].pipe.Spec.Actions)}
       /\ call["p1"].pipe.Name = id.Name
       /\ call["p1"].pipe.Digest # id.Digest
       /\ ~Stored(db, Key(call["p1"].pipe))
       /\ Stored(db, id)
       /\ \E r \in db.Resources : r.PipeID = id /\ ~Disabled(db, r)
       /\ db = call["p1"].pre

(***************************************************************************)
(* C8: storing a pipe whose (name, digest) is already stored fails, with   *)
(* AlreadyExists unless the database itself reported a failure, and        *)
(* changes nothing: the record keeps its content and no label is gained    *)
(* or lost.                                                                *)
(***************************************************************************)
C8_DuplicateFails ==
    [][\A p \in Procs :
          (Returns(p) /\ Stored(call[p].pre, Key(call[p].pipe))) =>
              /\ call'[p].pc = "failed"
              /\ call'[p].fault \/ call'[p].err = "AlreadyExists"
              /\ db' = call[p].pre]_vars

\* a duplicate with another specification was refused with AlreadyExists
\* while a resource of the name stayed without the label
C8_Witness ==
    /\ call["p1"].pc = "failed"
    /\ call["p1"].err = "AlreadyExists"
    /\ Stored(db, Key(call["p1"].pipe))
    /\ Load(db, Key(call["p1"].pipe)).pipe # call["p1"].pipe.Spec
    /\ \E r \in db.Resources :
          r.PipeID.Name = call["p1"].pipe.Name /\ ~Disabled(db, r)

(***************************************************************************)
(* C9: whatever Store calls follow, Load of a stored (name, digest)        *)
(* succeeds and returns the specification it was first stored with.        *)
(***************************************************************************)
C9_OldDigestsLoadable ==
    \A id \in PipeIds :
       orig[id] # NoRow => Load(db, id) = [err |-> "none", pipe |-> orig[id].Spec]

\* a second digest of a name was just stored, with another specification
C9_Witness ==
    \E id \in PipeIds :
       /\ call["p1"].pc = "done"
       /\ call["p1"].pipe.Name = id.Name
       /\ call["p1"].pipe.Digest # id.Digest
       /\ orig[id] # NoRow
       /\ orig[id].Spec # call["p1"].pipe.Spec
       /\ Load(db, id).err = "none"

(***************************************************************************)
(* C10: when a Store of X@D2 succeeds, every resource attached to another  *)
(* stored digest of X carries 'disabled' and no resource attached to X@D2  *)
(* carries it.                                                             *)
(***************************************************************************)
C10_OldDisabled ==
    [][\A p \in Procs :
          (Returns(p) /\ call'[p].pc = "done") =>
              \A r \in db'.Resources :
                 /\ (r.PipeID.Name = call[p].pipe.Name /\ r.PipeID # Key(call[p].pipe))
                        => Disabled(db', r)
                 /\ r.PipeID = Key(call[p].pipe) => ~Disabled(db', r)]_vars

\* a second digest of a name was stored and the resource of the first one
\* is disabled
C10_Witness ==
    /\ call["p1"].pc = "done"
    /\ \E r \in db.Resources :
          /\ r.PipeID.Name = call["p1"].pipe.Name
          /\ r.PipeID # Key(call["p1"].pipe)
          /\ Disabled(db, r)
          /\ ~Disabled(call["p1"].pre, r)

(***************************************************************************)
(* C11: when a Store succeeds, the committed tables hold one dependency    *)
(* edge from the stored pipe to the (name, digest) of every nested "pipe"  *)
(* action of its specification.                                            *)
(***************************************************************************)
C11_EdgePerReference ==
    [][\A p \in Procs :
          (Returns(p) /\ call'[p].pc = "done") =>
              \A k \in 1..Len(Deps(call[p].pipe.Spec)) :
                 <<Key(call[p].pipe), Deps(call[p].pipe.Spec)[k]>>
                     \in db'.PipeDependencies]_vars

(***************************************************************************)
(* C12: when the sequence of ScanDependencies has ended, fully consumed    *)
(* or after the consumer stopped, the connection and the prepared          *)
(* statement are closed and no row cursor is open.                         *)
(***************************************************************************)
C12_ScanReleases ==
    (scPC \in {"done", "panicked"} /\ (FullyConsumed \/ scOut.stopped)) =>
        /\ scRes.conn = "closed"
        /\ scRes.prep = "closed"
        /\ scRes.cursor # "open"

(***************************************************************************)
(* C13: when two Store calls for different digests of one name overlap    *)
(* and both succeed, whatever the interleaving, both records are stored    *)
(* and each loads with the specification of its own call, and the          *)
(* records stored before stay as they were.                                *)
(***************************************************************************)
\* the calls of p and q overlapped: neither began after the other's commit
Overlapped(p, q) ==
    /\ ~Stored(call[p].pre, Key(call[q].pipe))
    /\ ~Stored(call[q].pre, Key(call[p].pipe))

RacedOnName(p, q) ==
    /\ p # q
    /\ call[p].pc = "done"
    /\ call[q].pc = "done"
    /\ call[p].pipe.Name = call[q].pipe.Name
    /\ call[p].pipe.Digest # call[q].pipe.Digest
    /\ Overlapped(p, q)

C13_ConcurrentDigestsStored ==
    \A p \in Procs, q \in Procs :
       RacedOnName(p, q) =>
          /\ Load(db, Key(call[p].pipe)) = [err |-> "none", pipe |-> call[p].pipe.Spec]
          /\ Load(db, Key(call[q].pipe)) = [err |-> "none", pipe |-> call[q].pipe.Spec]
          /\ \A id \in PipeIds :
                Stored(call[p].pre, id) => db.Pipes[id] = call[p].pre.Pipes[id]

\* two overlapping calls stored two digests of a name with different
\* specifications, the later one having waited for the lock
C13_Witness ==
    /\ RacedOnName("p1", "p2")
    /\ call["p1"].pipe.Spec # call["p2"].pipe.Spec
    /\ call["p1"].pre = call["p2"].pre
    /\ Stored(db, Key(call["p1"].pipe))
    /\ Stored(db, Key(call["p2"].pipe))

(***************************************************************************)
(* api.Point: the scalar names, the number encoding, the validation and    *)
(* the text rendering.                                                     *)
(***************************************************************************)
\* the Scalar constants
Bytes == "bytes"

String == "string"

Bool == "bool"

Int64 == "int64"

Uint64 == "uin64"

Float64 == "float64"

\* the keys of supportedScalars
supportedScalars == {"", Bytes, String, Bool, Int64, Uint64, Float64}

\* the bit of Nullable: 1 << 31
NullableBit == 31

\* the bit of Repeated: 1 << 30
RepeatedBit == 30

\* the mask of the scalar code: x & 0x7
ScalarMask == 7

\* an int is the set of the positions of its bits that are 1 (bit 0 the
\* lowest): the numbers of a Point need bit 31, past the integers at hand
\* the int of a small number n >= 0
Bits(n) == {k \in 0..30 : (n \div (2 ^ k)) % 2 = 1}

\* x | y
Or(x, y) == x \cup y

\* x & y
And(x, y) == x \cap y

\* the small number of an int with no bit above 30
RECURSIVE Value(_)
Value(x) ==
    IF x = {} THEN 0
    ELSE LET k == CHOOSE j \in x : TRUE IN (2 ^ k) + Value(x \ {k})

\* ValidateScalar: the class of the error, "none" for nil
ValidateScalar(s) == IF s \in supportedScalars THEN "none" ELSE "InvalidArgument"

\* NewPointFromNumber(x)
NewPointFromNumber(x) ==
    LET code == Value(And(x, Bits(ScalarMask)))
    IN  [Nullable |-> And(x, {NullableBit}) # {},
         Repeated |-> And(x, {RepeatedBit}) # {},
         Scalar |-> CASE code = 1 -> String
                      [] code = 2 -> Bool
                      [] code = 3 -> Int64
                      [] code = 4 -> Uint64
                      [] code = 5 -> Float64
                      [] OTHER -> ""]

\* t.AsNumber()
AsNumber(t) ==
    Or(Or(IF t.Nullable THEN {NullableBit} ELSE {},
          IF t.Repeated THEN {RepeatedBit} ELSE {}),
       Bits(CASE t.Scalar = String -> 1
              [] t.Scalar = Bool -> 2
              [] t.Scalar = Int64 -> 3
              [] t.Scalar = Uint64 -> 4
              [] t.Scalar = Float64 -> 5
              [] OTHER -> 0))

\* p.String(), p a nil pointer when isNil
PointString(isNil, t) ==
    IF isNil THEN "bytes"
    ELSE (IF t.Nullable THEN "*" ELSE "")
         \o (IF t.Repeated THEN "[]" ELSE "")
         \o (CASE t.Scalar \in {"", Bytes} -> "bytes"
               [] t.Scalar = String -> "string"
               [] t.Scalar = Bool -> "bytes"
               [] t.Scalar = Int64 -> "int64"
               [] t.Scalar = Uint64 -> "uint64"
               [] t.Scalar = Float64 -> "float64"
               [] OTHER -> "bytes")

\* ValidatePoint(p), p a nil pointer when isNil
ValidatePoint(isNil, t) == IF isNil THEN "none" ELSE ValidateScalar(t.Scalar)

\* the scalar strings the operations are applied to: the constants, the
\* empty string, the name "uint64" and an unknown name
ScalarStrings == supportedScalars \cup {"uint64", "text"}

Points == [Nullable : BOOLEAN, Repeated : BOOLEAN, Scalar : ScalarStrings]

\* the numbers decoded: the two flag bits, every scalar code and one bit
\* outside the layout
Numbers ==
    {Or(Or(n, r), Or(o, Bits(c))) :
        n \in {{}, {NullableBit}}, r \in {{}, {RepeatedBit}}, o \in {{}, {3}},
        c \in 0..ScalarMask}

PointAsNumber ==
    /\ \E t \in Points :
          pointOp' = [NoPointOp EXCEPT !.op = "AsNumber", !.p = t, !.x = AsNumber(t)]
    /\ UNCHANGED <<db, flattenVars, scanVars, storeVars, regexVars, triggerVars>>

PointFromNumber ==
    /\ \E x \in Numbers :
          pointOp' = [NoPointOp EXCEPT !.op = "NewPointFromNumber", !.x = x,
                                       !.out = NewPointFromNumber(x)]
    /\ UNCHANGED <<db, flattenVars, scanVars, storeVars, regexVars, triggerVars>>

\* NewPointFromNumber(p.AsNumber())
PointRoundTrip ==
    /\ \E t \in Points :
          pointOp' = [NoPointOp EXCEPT !.op = "RoundTrip", !.p = t, !.x = AsNumber(t),
                                       !.out = NewPointFromNumber(AsNumber(t))]
    /\ UNCHANGED <<db, flattenVars, scanVars, storeVars, regexVars, triggerVars>>

PointValidateScalar ==
    /\ \E s \in ScalarStrings :
          pointOp' = [NoPointOp EXCEPT !.op = "ValidateScalar", !.s = s,
                                       !.err = ValidateScalar(s)]
    /\ UNCHANGED <<db, flattenVars, scanVars, storeVars, regexVars, triggerVars>>

PointValidate ==
    /\ \E isNil \in BOOLEAN, t \in Points :
          /\ isNil => t = ZeroPoint
          /\ pointOp' = [NoPointOp EXCEPT !.op = "ValidatePoint", !.isNil = isNil,
                                          !.p = t, !.err = ValidatePoint(isNil, t)]
    /\ UNCHANGED <<db, flattenVars, scanVars, storeVars, regexVars, triggerVars>>

PointToString ==
    /\ \E isNil \in BOOLEAN, t \in Points :
          /\ isNil => t = ZeroPoint
          /\ pointOp' = [NoPointOp EXCEPT !.op = "String", !.isNil = isNil,
                                          !.p = t, !.text = PointString(isNil, t)]
    /\ UNCHANGED <<db, flattenVars, scanVars, storeVars, regexVars, triggerVars>>

PointInit ==
    /\ FlattenIdle
    /\ db = EmptyDB
    /\ ScanIdle
    /\ StoreIdle
    /\ PointIdle
    /\ RegexIdle
    /\ TriggerIdle

PointNext ==
    \/ PointAsNumber
    \/ PointFromNumber
    \/ PointRoundTrip
    \/ PointValidateScalar
    \/ PointValidate
    \/ PointToString

SpecPoint == PointInit /\ [][PointNext]_vars

(***************************************************************************)
(* What the claims about Point speak of: the six scalar names and their    *)
(* codes, 0 = bytes .. 5 = float64.                                        *)
(***************************************************************************)
ScalarNames == <<"bytes", "string", "bool", "int64", "uint64", "float64">>

NamedScalars == {ScalarNames[k] : k \in 1..Len(ScalarNames)}

\* the code of a scalar name, the empty scalar counting as bytes; -1 for
\* any other string
ScalarCode(s) ==
    IF s = "" THEN 0
    ELSE IF s \in NamedScalars
    THEN (CHOOSE k \in 1..Len(ScalarNames) : ScalarNames[k] = s) - 1
    ELSE -1

(***************************************************************************)
(* C14: for every Point whose scalar is one of the six names, whatever     *)
(* its nullable and repeated, NewPointFromNumber(p.AsNumber()) is p.       *)
(***************************************************************************)
C14_RoundTrip ==
    (pointOp.op = "RoundTrip" /\ pointOp.p.Scalar \in NamedScalars) =>
        pointOp.out = pointOp.p

(***************************************************************************)
(* C15: AsNumber gives a number below 2^32 with bit 31 set iff nullable,   *)
(* bit 30 set iff repeated, the low 3 bits the scalar's code and no other  *)
(* bit set; NewPointFromNumber reads the same bits.                        *)
(***************************************************************************)
C15_BitLayout ==
    /\ (pointOp.op = "AsNumber" /\ pointOp.p.Scalar \in NamedScalars) =>
          /\ pointOp.x \subseteq 0..31
          /\ 31 \in pointOp.x <=> pointOp.p.Nullable
          /\ 30 \in pointOp.x <=> pointOp.p.Repeated
          /\ Value(pointOp.x \cap 0..2) = ScalarCode(pointOp.p.Scalar)
          /\ pointOp.x \cap 3..29 = {}
    /\ (pointOp.op = "NewPointFromNumber" /\ Value(pointOp.x \cap 0..2) <= 5) =>
          /\ pointOp.out.Nullable <=> 31 \in pointOp.x
          /\ pointOp.out.Repeated <=> 30 \in pointOp.x
          /\ ScalarCode(pointOp.out.Scalar) = Value(pointOp.x \cap 0..2)

(***************************************************************************)
(* C16: ValidateScalar returns nil for the empty string and the six        *)
(* scalar names and an InvalidArgument error for any other string;         *)
(* ValidatePoint returns nil for a nil Point and otherwise what            *)
(* ValidateScalar returns for the point's scalar.                          *)
(***************************************************************************)
C16_ValidScalars ==
    /\ pointOp.op = "ValidateScalar" =>
          pointOp.err = IF pointOp.s \in NamedScalars \cup {""}
                        THEN "none" ELSE "InvalidArgument"
    /\ pointOp.op = "ValidatePoint" =>
          pointOp.err = IF pointOp.isNil THEN "none"
                        ELSE ValidateScalar(pointOp.p.Scalar)

(***************************************************************************)
(* C17: String renders "*" iff nullable, then "[]" iff repeated, then the  *)
(* name of the point's scalar, "bytes" for the empty scalar and for a nil  *)
(* Point; so no point with another scalar code renders to the same text.   *)
(***************************************************************************)
C17_StringNamesScalar ==
    (pointOp.op = "String" /\ pointOp.p.Scalar \in NamedScalars \cup {""}) =>
        /\ pointOp.text =
              (IF pointOp.p.Nullable THEN "*" ELSE "")
              \o (IF pointOp.p.Repeated THEN "[]" ELSE "")
              \o ScalarNames[ScalarCode(pointOp.p.Scalar) + 1]
        /\ \A q \in Points :
              (/\ q.Scalar \in NamedScalars \cup {""}
               /\ ScalarCode(q.Scalar) # ScalarCode(pointOp.p.Scalar))
                  => PointString(FALSE, q) # pointOp.text

(***************************************************************************)
(* server.Regex: Bind and Run on one Regex value.                          *)
(***************************************************************************)
\* the patterns bound: none, two well-formed ones, a malformed one
Patterns == {"", "a+", "b*", "("}

\* regexp.Compile succeeds
Compiles(pattern) == pattern # "("

\* the SrcField of the edges bound
SrcFields == {"pattern", "", "Pattern", "flags"}

\* the Result of the edges bound: strings, Regex pointers, a nil Regex
\* pointer, a value of another type and the nil interface
EdgeResults ==
    {EdgeResult("string", pat, ZeroRegex) : pat \in Patterns}
    \cup {EdgeResult("*Regex", "", [Pattern |-> pat]) : pat \in Patterns}
    \cup {EdgeResult("nil *Regex", "", ZeroRegex),
          EdgeResult("int", "", ZeroRegex),
          EdgeResult("nil", "", ZeroRegex)}

\* the error of the default case: fmt.Errorf("not found: %q", e.SrcField),
\* which wraps no status error
BindError == "Unclassified"

\* x.Bind(e): how the call ends ("ok", "error", "panic"), the class of the
\* error and the configuration left
Bind(x, e) ==
    CASE e.SrcField = "pattern" ->
            IF e.Result.type = "string"
            THEN [outcome |-> "ok", class |-> "none", cfg |-> [x EXCEPT !.Pattern = e.Result.str]]
            ELSE [outcome |-> "panic", class |-> "none", cfg |-> x]
      [] e.SrcField = "" ->
            IF e.Result.type = "*Regex"
            THEN [outcome |-> "ok", class |-> "none", cfg |-> e.Result.cfg]
            ELSE [outcome |-> "panic", class |-> "none", cfg |-> x]
      [] OTHER -> [outcome |-> "error", class |-> BindError, cfg |-> x]

\* x.Run(ctx): how the call ends, the class of the error and the pattern
\* of the regular expression returned
Run(x) ==
    IF x.Pattern = ""
    THEN [outcome |-> "error", class |-> "Unclassified", compiled |-> ""]
    ELSE IF ~Compiles(x.Pattern)
    THEN [outcome |-> "error", class |-> "Syntax", compiled |-> ""]
    ELSE [outcome |-> "ok", class |-> "none", compiled |-> x.Pattern]

RegexBind ==
    /\ \E f \in SrcFields, r \in EdgeResults :
          LET b == Bind(regex, [SrcField |-> f, Result |-> r])
          IN  /\ regex' = b.cfg
              /\ regexOp' = [op |-> "Bind", SrcField |-> f, Result |-> r,
                             outcome |-> b.outcome, class |-> b.class,
                             pre |-> regex, compiled |-> ""]
    /\ UNCHANGED <<db, flattenVars, scanVars, storeVars, pointVars, triggerVars>>

RegexRun ==
    /\ regexOp' = [op |-> "Run", SrcField |-> "",
                   Result |-> EdgeResult("none", "", ZeroRegex),
                   outcome |-> Run(regex).outcome, class |-> Run(regex).class,
                   pre |-> regex, compiled |-> Run(regex).compiled]
    /\ UNCHANGED regex
    /\ UNCHANGED <<db, flattenVars, scanVars, storeVars, pointVars, triggerVars>>

RegexInit ==
    /\ FlattenIdle
    /\ db = EmptyDB
    /\ ScanIdle
    /\ StoreIdle
    /\ PointIdle
    /\ RegexIdle
    /\ TriggerIdle

RegexNext ==
    \/ RegexBind
    \/ RegexRun

SpecRegex == RegexInit /\ [][RegexNext]_vars

(***************************************************************************)
(* C18: a Bind of a field the Regex does not know, any field but           *)
(* "pattern" and "", returns a NotFound error and leaves the               *)
(* configuration as it was, so that Run gives what it gave before.         *)
(***************************************************************************)
C18_UnknownFieldNotFound ==
    (regexOp.op = "Bind" /\ regexOp.SrcField \notin {"pattern", ""}) =>
        /\ regexOp.outcome = "error"
        /\ regexOp.class = "NotFound"
        /\ regex = regexOp.pre
        /\ Run(regex) = Run(regexOp.pre)

(***************************************************************************)
(* TriggerStore.Store, one database step per action, and the lifecycle of  *)
(* a trigger event around it: received, matched, planned, executing,       *)
(* finished, or failed.                                                    *)
(***************************************************************************)
\* the triggers and the plans of the records stored
TriggerSpecs == {"t1", "t2"}

Plans == {"pl1", "pl2"}

\* marshalNullableJSONString: the JSON text of a value
Marshal(v) == IF v = "" THEN "null" ELSE "{" \o v \o "}"

\* a faulty statement: the row is inserted as committed
InsertTriggerCommitted(t, id, a2, a3) ==
    [t EXCEPT ![id] = [present |-> TRUE, Committed |-> TRUE, Plan |-> a2, Spec |-> a3]]

\* INSERT INTO Triggers (TriggerID, Committed, Plan, Spec) VALUES (?, false, ?, ?)
\* with the arguments id, a2, a3 in the order of the placeholders
InsertTrigger(t, id, a2, a3) ==
    [t EXCEPT ![id] = [present |-> TRUE, Committed |-> FALSE, Plan |-> a2, Spec |-> a3]]

\* PlanStore.Finish(ctx, uuid): the plan's row is marked
Finish(t, id) == [t EXCEPT ![id].Committed = TRUE]

TrigEnded == {"idle", "done", "failed"}

\* an error return of Store: "" and the error; the deferred tx.Rollback()
TrigFails(at) ==
    /\ trigCall' = [trigCall EXCEPT !.pc = "failed", !.ret = "", !.err = "DriverError",
                                    !.at = at, !.tx = EmptyTriggers]
    /\ UNCHANGED triggers

\* Store(ctx, object) up to newUUID: the connection, the transaction, the
\* two marshalled fields, the prepared INSERT, the id; called for the plan
\* of a matched event
TrigStoreCall ==
    /\ trigCall.pc \in TrigEnded
    /\ \E e \in Events, tr \in TriggerSpecs, pl \in Plans, id \in TriggerIds, ok \in BOOLEAN :
          /\ events[e].state = "matched"
          /\ ~triggers[id].present
          /\ events' = [events EXCEPT ![e].state = "planning"]
          /\ trigCall' =
                IF ok
                THEN [pc |-> "exec", ev |-> e, object |-> [Trigger |-> tr, Plan |-> pl],
                      spec |-> Marshal(tr), plan |-> Marshal(pl), id |-> id,
                      ret |-> "", err |-> "none", at |-> "", tx |-> triggers]
                ELSE [NoTrigCall EXCEPT !.pc = "failed", !.ev = e,
                                        !.object = [Trigger |-> tr, Plan |-> pl],
                                        !.err = "DriverError", !.at = "begin"]
    /\ UNCHANGED <<triggers, results, collScan>>
    /\ UNCHANGED <<db, flattenVars, scanVars, storeVars, pointVars, regexVars>>

\* prep.ExecContext(ctx, id, spec, plan)
TrigStoreExec ==
    /\ trigCall.pc = "exec"
    /\ \E ok \in BOOLEAN :
          IF ok
          THEN /\ trigCall' = [trigCall EXCEPT
                                 !.pc = "commit",
                                 !.tx = InsertTrigger(@, trigCall.id, trigCall.spec,
                                                      trigCall.plan)]
               /\ UNCHANGED triggers
          ELSE TrigFails("exec")
    /\ UNCHANGED <<events, results, collScan>>
    /\ UNCHANGED <<db, flattenVars, scanVars, storeVars, pointVars, regexVars>>

\* tx.Commit(); return id, nil
TrigStoreCommit ==
    /\ trigCall.pc = "commit"
    /\ \E ok \in BOOLEAN :
          IF ok
          THEN /\ triggers' = trigCall.tx
               /\ trigCall' = [trigCall EXCEPT !.pc = "done", !.ret = trigCall.id,
                                               !.tx = EmptyTriggers]
          ELSE TrigFails("commit")
    /\ UNCHANGED <<events, results, collScan>>
    /\ UNCHANGED <<db, flattenVars, scanVars, storeVars, pointVars, regexVars>>

\* received -> matched: the event resolves to its pipes
EventMatch ==
    /\ \E e \in Events :
          /\ events[e].state = "received"
          /\ events' = [events EXCEPT ![e].state = "matched"]
    /\ UNCHANGED <<triggers, trigCall, results, collScan>>
    /\ UNCHANGED <<db, flattenVars, scanVars, storeVars, pointVars, regexVars>>

\* the Store of the event's plan has returned: planned under the returned
\* id, or failed
EventPlanned ==
    /\ \E e \in Events :
          /\ events[e].state = "planning"
          /\ trigCall.ev = e
          /\ trigCall.pc \in {"done", "failed"}
          /\ events' = [events EXCEPT
                          ![e] = IF trigCall.pc = "done"
                                 THEN [@ EXCEPT !.state = "planned", !.id = trigCall.ret]
                                 ELSE [@ EXCEPT !.state = "failed", !.failedAt = "planning"]]
    /\ UNCHANGED <<triggers, trigCall, results, collScan>>
    /\ UNCHANGED <<db, flattenVars, scanVars, storeVars, pointVars, regexVars>>

\* planned -> executing: the first pipe invocation of the plan starts
EventExecute ==
    /\ \E e \in Events :
          /\ events[e].state = "planned"
          /\ events' = [events EXCEPT ![e].state = "executing", ![e].started = TRUE]
    /\ UNCHANGED <<triggers, trigCall, results, collScan>>
    /\ UNCHANGED <<db, flattenVars, scanVars, storeVars, pointVars, regexVars>>

\* ResultStore.StoreResults for the event
EventStoreResults ==
    /\ \E e \in Events :
          /\ events[e].state = "executing"
          /\ e \notin results
          /\ results' = results \cup {e}
    /\ UNCHANGED <<triggers, trigCall, events, collScan>>
    /\ UNCHANGED <<db, flattenVars, scanVars, storeVars, pointVars, regexVars>>

\* executing -> finished: PlanStore.Finish once the results are stored
EventFinish ==
    /\ trigCall.pc \in TrigEnded
    /\ \E e \in Events :
          /\ events[e].state = "executing"
          /\ e \in results
          /\ triggers' = Finish(triggers, events[e].id)
          /\ events' = [events EXCEPT ![e].state = "finished"]
    /\ UNCHANGED <<trigCall, results, collScan>>
    /\ UNCHANGED <<db, flattenVars, scanVars, storeVars, pointVars, regexVars>>

\* a step after matched fails: flattening, an invocation, the storing of
\* the results or Finish
EventFail ==
    /\ \E e \in Events :
          /\ events[e].state \in {"matched", "planned", "executing"}
          /\ events' = [events EXCEPT ![e].state = "failed", ![e].failedAt = events[e].state]
    /\ UNCHANGED <<triggers, trigCall, results, collScan>>
    /\ UNCHANGED <<db, flattenVars, scanVars, storeVars, pointVars, regexVars>>

TriggerInit ==
    /\ FlattenIdle
    /\ db = EmptyDB
    /\ ScanIdle
    /\ StoreIdle
    /\ PointIdle
    /\ RegexIdle
    /\ TriggerIdle

TriggerNext ==
    \/ EventMatch
    \/ TrigStoreCall
    \/ TrigStoreExec
    \/ TrigStoreCommit
    \/ EventPlanned
    \/ EventExecute
    \/ EventStoreResults
    \/ EventFinish
    \/ EventFail

SpecTrigger == TriggerInit /\ [][TriggerNext]_vars

(***************************************************************************)
(* What the claims about triggers speak of.                                *)
(***************************************************************************)
\* the plan of event e has a row
Persisted(e) == events[e].id # "" /\ triggers[events[e].id].present

\* the plan of event e is marked Finished
MarkedFinished(e) == events[e].id # "" /\ triggers[events[e].id].Committed

(***************************************************************************)
(* C19: for every trigger event, no pipe invocation has started unless     *)
(* the plan is persisted; the plan is marked Finished only when it is      *)
(* persisted and the results are stored; and after a failure that comes    *)
(* after the persistence the plan's row is there and not Finished.         *)
(***************************************************************************)
C19_PlanLifecycle ==
    \A e \in Events :
       /\ events[e].started => Persisted(e)
       /\ MarkedFinished(e) => (Persisted(e) /\ e \in results)
       /\ (events[e].state = "failed" /\ events[e].failedAt \in {"planned", "executing"})
             => (Persisted(e) /\ ~MarkedFinished(e))
       /\ \A id \in TriggerIds :
             triggers[id].Committed => \E f \in Events : events[f].id = id

\* one event is finished, its results stored, and another failed while
\* executing, its plan's row present and not Finished
C19_Witness ==
    \E e \in Events, f \in Events :
       /\ events[e].state = "finished"
       /\ MarkedFinished(e)
       /\ e \in results
       /\ events[f].state = "failed"
       /\ events[f].failedAt = "executing"
       /\ events[f].started
       /\ Persisted(f)
       /\ ~MarkedFinished(f)

(***************************************************************************)
(* C20: a Store that succeeds adds exactly one row, under an id no row     *)
(* had, with Committed false, the record's plan in Plan and the record's   *)
(* trigger in Spec, and returns that id; a Store that fails leaves the     *)
(* table as it was.                                                        *)
(***************************************************************************)
C20_StoreOneRow ==
    [][(trigCall.pc \notin TrigEnded /\ trigCall'.pc \in TrigEnded) =>
          IF trigCall'.pc = "done"
          THEN /\ trigCall'.ret \in TriggerIds
               /\ ~triggers[trigCall'.ret].present
               /\ triggers' =
                     [triggers EXCEPT
                        ![trigCall'.ret] =
                            [present |-> TRUE, Committed |-> FALSE,
                             Plan |-> Marshal(trigCall.object.Plan),
                             Spec |-> Marshal(trigCall.object.Trigger)]]
          ELSE /\ trigCall'.ret = ""
               /\ triggers' = triggers]_vars

(***************************************************************************)
(* C21: once yield has returned false, the sequence of ScanDependencies    *)
(* calls yield no more and queries the dependencies of no further pipe     *)
(* of its queue.                                                           *)
(***************************************************************************)
C21_NothingAfterStop == ~scOut.afterStop

(***************************************************************************)
(* C22: once the sequence of ScanDependencies has yielded an error, it     *)
(* yields nothing more, neither a pipe nor an error.                       *)
(***************************************************************************)
C22_ErrorIsTerminal == ~scOut.afterErr

(***************************************************************************)
(* TriggerStore.ScanTriggerCollections: the setup, then the returned       *)
(* sequence, one row per step.                                             *)
(***************************************************************************)
\* the collections a trigger's rows name
Collections == {"c1", "c2"}

\* ScanTriggerCollections(ctx, trigger) up to the return of the sequence:
\* s.db.Conn, conn.PrepareContext, prep.QueryContext
CollScanCall ==
    /\ collScan.pc = "idle"
    /\ \E setup \in {"ok", "conn", "prep", "query"}, found \in SUBSET Collections :
          collScan' =
             CASE setup = "conn" -> [collScan EXCEPT !.pc = "errseq"]
               [] setup = "prep" -> [collScan EXCEPT !.pc = "errseq", !.conn = "open"]
               [] setup = "query" ->
                     [collScan EXCEPT !.pc = "errseq", !.conn = "open", !.prep = "open"]
               [] setup = "ok" ->
                     [collScan EXCEPT !.pc = "rows", !.conn = "open", !.prep = "open",
                                      !.cursor = "open", !.left = found]
    /\ UNCHANGED <<triggers, trigCall, events, results>>
    /\ UNCHANGED <<db, flattenVars, scanVars, storeVars, pointVars, regexVars>>

\* seq2Error: the sequence yields the setup error once
CollScanErrSeq ==
    /\ collScan.pc = "errseq"
    /\ collScan' = [collScan EXCEPT !.pc = "done", !.errs = Bump(@)]
    /\ UNCHANGED <<triggers, trigCall, events, results>>
    /\ UNCHANGED <<db, flattenVars, scanVars, storeVars, pointVars, regexVars>>

\* rows.Next() delivers a row: scan it, decode it, yield it
CollScanRow ==
    /\ collScan.pc = "rows"
    /\ \E c \in collScan.left, ok \in BOOLEAN, cont \in BOOLEAN :
          collScan' =
             IF ~ok
             THEN \* yield(nil, err); return: the deferred rows.Close() and
                  \* conn.Close()
                  [collScan EXCEPT !.pc = "done", !.errs = Bump(@),
                                   !.cursor = "closed", !.conn = "closed"]
             ELSE IF ~cont
             THEN \* yield returned false: break
                  [collScan EXCEPT !.pc = "end", !.yielded = @ \cup {c},
                                   !.left = @ \ {c}, !.stopped = TRUE]
             ELSE [collScan EXCEPT !.yielded = @ \cup {c}, !.left = @ \ {c}]
    /\ UNCHANGED <<triggers, trigCall, events, results>>
    /\ UNCHANGED <<db, flattenVars, scanVars, storeVars, pointVars, regexVars>>

\* rows.Next() returns false, at the end or on an error
CollScanRowsEnd ==
    /\ collScan.pc = "rows"
    /\ \E err \in BOOLEAN :
          /\ collScan.left = {} \/ err
          /\ collScan' = [collScan EXCEPT !.pc = "end",
                                          !.errs = IF err THEN Bump(@) ELSE @]
    /\ UNCHANGED <<triggers, trigCall, events, results>>
    /\ UNCHANGED <<db, flattenVars, scanVars, storeVars, pointVars, regexVars>>

\* the sequence function returns: the deferred rows.Close() and conn.Close()
CollScanFinish ==
    /\ collScan.pc = "end"
    /\ collScan' = [collScan EXCEPT !.pc = "done", !.cursor = "closed",
                                    !.conn = "closed"]
    /\ UNCHANGED <<triggers, trigCall, events, results>>
    /\ UNCHANGED <<db, flattenVars, scanVars, storeVars, pointVars, regexVars>>

CollScanNext ==
    \/ CollScanCall
    \/ CollScanErrSeq
    \/ CollScanRow
    \/ CollScanRowsEnd
    \/ CollScanFinish

\* the two scans of the storage layer, side by side
StorageScansNext ==
    \/ ScanNext
    \/ CollScanNext

SpecStorageScans == ScanInit /\ [][StorageScansNext]_vars

(***************************************************************************)
(* C23: when the setup of ScanDependencies or of ScanTriggerCollections    *)
(* fails, at the statement or at the first query, the error sequence is    *)
(* returned with the connection and the statement closed.                  *)
(***************************************************************************)
C23_SetupFailureReleases ==
    /\ scPC = "errseq" => (scRes.conn # "open" /\ scRes.prep # "open")
    /\ collScan.pc = "errseq" => (collScan.conn # "open" /\ collScan.prep # "open")

(***************************************************************************)
(* PipeStore.StoreBatch: one Store call per pipe, in order, stopping at    *)
(* the first error.                                                        *)
(***************************************************************************)
\* the longest batch
MaxBatch == 2

Batches == UNION {[1..n -> StorePipes] : n \in 1..MaxBatch}

\* StoreBatch(ctx, objects)
BatchCall ==
    /\ batch.pc = "idle"
    /\ NoClientBusy
    /\ \E objects \in Batches :
          batch' = [NoBatch EXCEPT !.pc = "run", !.objects = objects, !.pre = db]
    /\ UNCHANGED <<db, lock, call, tx, orig, nStores>>
    /\ UNCHANGED <<flattenVars, scanVars, pointVars, regexVars, triggerVars>>

\* err := s.Store(ctx, o) for the next pipe of the batch
BatchStore ==
    /\ batch.pc = "run"
    /\ batch.k <= Len(batch.objects)
    /\ call["p1"].pc = "idle"
    /\ StoreCall("p1")
    /\ call'["p1"].pipe = batch.objects[batch.k]

\* the Store call has returned: return its error, or go on with the next pipe
BatchStored ==
    /\ batch.pc = "run"
    /\ call["p1"].pc \in {"done", "failed"}
    /\ batch' = IF call["p1"].pc = "failed"
                THEN [batch EXCEPT !.pc = "failed", !.err = call["p1"].err]
                ELSE [batch EXCEPT !.k = @ + 1]
    /\ call' = [call EXCEPT !["p1"].pc = "idle"]
    /\ UNCHANGED <<db, lock, tx, orig, nStores>>
    /\ UNCHANGED <<flattenVars, scanVars, pointVars, regexVars, triggerVars>>

\* the loop is over: return nil
BatchReturn ==
    /\ batch.pc = "run"
    /\ batch.k > Len(batch.objects)
    /\ batch' = [batch EXCEPT !.pc = "done"]
    /\ UNCHANGED <<db, lock, call, tx, orig, nStores>>
    /\ UNCHANGED <<flattenVars, scanVars, pointVars, regexVars, triggerVars>>

BatchNext ==
    \/ BatchCall
    \/ BatchStore
    \/ StoreDisableOld("p1")
    \/ StoreInsert("p1")
    \/ StoreDeps("p1")
    \/ StoreEnableNew("p1")
    \/ StoreCommit("p1")
    \/ BatchStored
    \/ BatchReturn

SpecStoreBatch == StoreInit /\ [][BatchNext]_vars

(***************************************************************************)
(* C24: when StoreBatch fails, no pipe of the batch is persisted, those    *)
(* before the failing one included: the stored pipes are the ones stored   *)
(* before the call.                                                        *)
(***************************************************************************)
C24_BatchAllOrNothing ==
    batch.pc = "failed" => db.Pipes = batch.pre.Pipes

(***************************************************************************)
(* C25: a Bind that cannot succeed returns an error and leaves the         *)
(* configuration as it was: "pattern" bound to a result that is no         *)
(* string, "" bound to a result that is no Regex configuration; it does    *)
(* not panic.                                                              *)
(***************************************************************************)
C25_BindFailsByError ==
    (/\ regexOp.op = "Bind"
     /\ \/ regexOp.SrcField = "pattern" /\ regexOp.Result.type # "string"
        \/ regexOp.SrcField = "" /\ regexOp.Result.type # "*Regex") =>
        /\ regexOp.outcome = "error"
        /\ regex = regexOp.pre

====
